---- MODULE Spec2Model ----
(***************************************************************************)
(* The authenticated API client of the camphub frontend                    *)
(* (src/unnamed/part_002, lines 296-443): fetchAPI with its                 *)
(* retry-once-on-401 token refresh, refreshToken, and login.                *)
(*                                                                         *)
(* JavaScript runs the client on one event loop.  Code between two `await` *)
(* expressions runs without interruption; at every `await` any other       *)
(* pending continuation may run first.  Each action below is therefore one *)
(* such synchronous segment, and a call's position (pc) names the `await`  *)
(* it is suspended at.                                                      *)
(***************************************************************************)
EXTENDS Integers, Sequences, FiniteSets, TLC

(* ------------------------------ bounds --------------------------------- *)
\* number of client calls that may be in progress together
NumCalls == 2

Calls == 1..NumCalls

(* ------------------------------ values --------------------------------- *)
\* JavaScript null (localStorage.getItem of a missing key) and undefined
Null == "<null>"
Undefined == "<undefined>"

\* localStorage keys used by the fetch client
KAccess == "camphub_user_access"
KRefresh == "camphub_user_refresh"
\* keys removed by logout()
KLogoutAccess == "access_token"
KLogoutRefresh == "refresh_token"
Keys == {KAccess, KRefresh, KLogoutAccess, KLogoutRefresh}

\* token strings the server may hand out
AccessValues == {"A1", "A2"}
RefreshValues == {"R2"}

\* HTTP statuses the server may answer with; NetErr is a rejected fetch()
Statuses == {200, 204, 401, 500}
NetErr == 0
ResOk(status) == status >= 200 /\ status <= 299

\* JSON bodies the server may answer with.  access/refresh are top-level
\* fields, dAccess/dRefresh are the fields of a nested `data` object
\* (hasData says whether the body has one); ok is a truthy top-level `ok`.
NoFields == [access |-> Undefined, refresh |-> Undefined, hasData |-> FALSE,
             dAccess |-> Undefined, dRefresh |-> Undefined, ok |-> FALSE]
Bodies ==
    {NoFields}
    \cup {[NoFields EXCEPT !.access = a] : a \in AccessValues}
    \cup {[NoFields EXCEPT !.access = "A2", !.refresh = r] : r \in RefreshValues}
    \cup {[NoFields EXCEPT !.hasData = TRUE, !.dAccess = "A2", !.dRefresh = r] :
             r \in RefreshValues}
\* bodies the registration endpoint may answer with as well
RegisterBodies == Bodies \cup {[NoFields EXCEPT !.ok = TRUE]}
\* a body that res.json() cannot parse
Malformed == [NoFields EXCEPT !.access = "<malformed>"]

\* JavaScript truthiness of a value used in `if (token)`, `!refresh`, `a && b`
Truthy(v) == v \notin {Null, Undefined, ""}

\* localStorage.setItem stores String(value)
ToStorage(v) ==
    IF v = Undefined THEN "undefined"
    ELSE IF v = Null THEN "null"
    ELSE v

(* ------------------------------ errors --------------------------------- *)
\* texts res.text() may yield for an error response
Texts == {"denied", "oops"}

\* what fetchAPI resolves to or throws: kind, and where they matter the
\* response status, the parsed JSON body and the body text
NoResult == [kind |-> "pending", status |-> 0, body |-> NoFields, text |-> ""]
SessionExpired == [NoResult EXCEPT !.kind = "Session expired. Please log in again."]
HttpError(status, text) ==
    [NoResult EXCEPT !.kind = "Error ${res.status}: ${error}",
                     !.status = status, !.text = text]
TransportError == [NoResult EXCEPT !.kind = "fetch rejected"]
ParseError == [NoResult EXCEPT !.kind = "json rejected"]
Resolved(status, body) ==
    [NoResult EXCEPT !.kind = "resolved", !.status = status, !.body = body]

\* errors thrown inside refreshToken
NoRefreshErr == "none"
NoRefreshTokenFound == "No refresh token found"
UnableToRefresh == "Unable to refresh token"
RefreshTransportError == "refresh fetch rejected"
RefreshParseError == "refresh json rejected"

VARIABLES
    store,   \* localStorage: key -> stored string, or Null
    calls    \* per call: position, arguments and what it has done so far

vars == <<store, calls>>

(* ------------------------------ storage -------------------------------- *)
getAccessToken == store[KAccess]
getRefreshToken == store[KRefresh]

setItem(st, k, v) == [st EXCEPT ![k] = ToStorage(v)]
removeItem(st, k) == [st EXCEPT ![k] = Null]

EmptyStore == [k \in Keys |-> Null]

(* ------------------------------ headers -------------------------------- *)
\* a header set is a set of <<name, value>>; a bearer value is <<"Bearer", token>>
ContentTypeJson == <<"Content-Type", "application/json">>
Authorization(token) == <<"Authorization", <<"Bearer", token>>>>

\* variant: the bearer header is left out
getDefaultHeadersNoAuth == {ContentTypeJson}

getDefaultHeaders ==
    {ContentTypeJson} \cup
    (IF Truthy(getAccessToken) THEN {Authorization(getAccessToken)} ELSE {})

\* variant: isFormData is ignored
fetchAPIHeadersAlwaysDefault(isFormData) == getDefaultHeaders

\* the `headers` constant of fetchAPI
fetchAPIHeaders(isFormData) ==
    IF isFormData
    THEN (IF Truthy(getAccessToken) THEN {Authorization(getAccessToken)} ELSE {})
    ELSE getDefaultHeaders

\* variant: the refresh request is sent with the headers of every other one
refreshHeadersWithBearer == getDefaultHeaders

\* lines 321-323: the headers of the request refreshToken sends
refreshHeaders == {ContentTypeJson}

(* ------------------------------- calls --------------------------------- *)
IdleCall ==
    [pc |-> "idle",            \* the await the call is suspended at
     fn |-> "fetchAPI",        \* exported function that was called
     isFormData |-> FALSE,
     retry |-> TRUE,           \* the retry argument of the running fetchAPI
     status |-> 0,             \* res.status of the response being handled
     first |-> -1,             \* status of the first response (-1: none yet)
     requests |-> <<>>,        \* requests sent to the endpoint: [headers, retry]
     refreshCalls |-> 0,       \* invocations of refreshToken
     refresh |-> Null,         \* the `refresh` constant of refreshToken
     refreshRequests |-> <<>>, \* requests sent to the refresh endpoint
     refreshErr |-> NoRefreshErr,
     refreshed |-> Null,       \* data.access of a successful refresh
     jsonCalls |-> 0,          \* res.json() calls on responses of the endpoint
     result |-> NoResult,      \* what fetchAPI resolved to or threw
     outcome |-> "pending",    \* what the exported function resolved to or threw
     doneStore |-> EmptyStore, \* localStorage when fetchAPI completed
     endStore |-> EmptyStore,  \* localStorage when the exported function completed
     alone |-> TRUE]           \* no other call has run since this one began

Active(r) == r.pc \notin {"idle", "done"}

\* The record of what a call has done (requests, refreshCalls, ..., alone)
\* is kept for the calls in Observed only.  Every call runs the same code on
\* the same localStorage; the other calls keep just what their own code
\* still reads: position, arguments and, for login and register, the result.
Observed == {1}

Forget(r) ==
    IF r.pc = "done" THEN [IdleCall EXCEPT !.pc = "done"]
    ELSE [IdleCall EXCEPT
            !.pc = r.pc,
            !.fn = r.fn,
            \* read again only by a reissue
            !.isFormData = IF r.pc \in {"fetch", "refreshFetch", "refreshJson",
                                        "refreshReturned"} /\ r.retry
                           THEN r.isFormData ELSE FALSE,
            \* read when the request settles
            !.retry = IF r.pc = "fetch" THEN r.retry ELSE TRUE,
            \* read by login and register after fetchAPI resolved
            !.result = IF r.pc \in {"loginCont", "registerCont"} THEN r.result
                       ELSE NoResult]

\* another call ran a segment while r was in progress
Disturb(d, r) ==
    IF d \in Observed /\ Active(r) THEN [r EXCEPT !.alone = FALSE] ELSE r

\* call c moves to record r; every other call in progress is interleaved with
Step(c, r) ==
    calls' = [d \in Calls |->
                IF d = c THEN (IF c \in Observed THEN r ELSE Forget(r))
                ELSE Disturb(d, calls[d])]

\* fetchAPI settles with `result` while localStorage is st; login and
\* register go on after their `await fetchAPI(...)`, logout has returned
\* already, every other caller is finished
Complete(r, result, st) ==
    LET continues == r.fn \in {"login", "register"} /\ result.kind = "resolved"
    IN  [r EXCEPT !.result = result,
                  !.doneStore = st,
                  !.endStore = IF continues \/ r.fn = "logout" THEN @ ELSE st,
                  !.outcome = IF continues THEN "pending"
                              ELSE IF r.fn = "logout" THEN @
                              ELSE result.kind,
                  !.pc = IF ~continues THEN "done"
                         ELSE IF r.fn = "login" THEN "loginCont"
                         ELSE "registerCont"]

\* the request fetchAPI sends, as the server sees it
\* (stored: the access token localStorage holds when it is sent)
Request(isFormData, retry) ==
    [headers |-> fetchAPIHeaders(isFormData), retry |-> retry,
     stored |-> getAccessToken]

\* variants: the retry flag is ignored; every error status refreshes
ShouldRefreshAlways(status, retry) == status = 401
ShouldRefreshOnError(status, retry) == ~ResOk(status) /\ retry

\* line 360: the condition of the refresh path
ShouldRefresh(status, retry) == status = 401 /\ retry

(* ------------------------------ fetchAPI ------------------------------- *)
\* lines 337-358: an exported function calls fetchAPI (retry defaults to
\* true); headers are built and the request is sent
CallFetchAPI(c, fn, isFormData) ==
    /\ calls[c].pc = "idle"
    \* calls outside Observed are interchangeable: they start in index order
    /\ (c - 1 \in Calls \ Observed) => calls[c - 1].pc # "idle"
    /\ Step(c, [calls[c] EXCEPT !.pc = "fetch",
                                !.fn = fn,
                                !.isFormData = isFormData,
                                !.retry = TRUE,
                                !.requests = <<Request(isFormData, TRUE)>>])
    /\ UNCHANGED store

\* variant: the refresh request is sent without looking at the token
StartRefreshAlwaysSends(r) ==
    [r EXCEPT !.pc = "refreshFetch",
              !.refreshCalls = @ + 1,
              !.refresh = getRefreshToken,
              !.refreshRequests =
                  Append(@, [method |-> "POST",
                             headers |-> refreshHeaders,
                             body |-> getRefreshToken])]

\* variant: a call that finds a refresh in flight waits for that one
\* instead of sending its own request
StartRefreshSerialized(r) ==
    IF ~Truthy(getRefreshToken)
    THEN [r EXCEPT !.pc = "refreshThrown",
                   !.refreshCalls = @ + 1,
                   !.refresh = getRefreshToken,
                   !.refreshErr = NoRefreshTokenFound]
    ELSE IF \E d \in Calls : calls[d].pc \in {"refreshFetch", "refreshJson"}
    THEN [r EXCEPT !.pc = "refreshReturned",
                   !.refreshCalls = @ + 1,
                   !.refresh = getRefreshToken,
                   !.refreshed = getAccessToken]
    ELSE [r EXCEPT !.pc = "refreshFetch",
                   !.refreshCalls = @ + 1,
                   !.refresh = getRefreshToken,
                   !.refreshRequests =
                       Append(@, [method |-> "POST",
                                  headers |-> refreshHeaders,
                                  body |-> getRefreshToken])]

\* variant: refreshToken is called without `await`; the request is reissued
\* while the refresh is still in flight
StartRefreshNotAwaited(r) ==
    [r EXCEPT !.pc = "fetch",
              !.retry = FALSE,
              !.refreshCalls = @ + 1,
              !.refresh = getRefreshToken,
              !.refreshRequests =
                  IF ~Truthy(getRefreshToken) THEN @
                  ELSE Append(@, [method |-> "POST",
                                  headers |-> refreshHeaders,
                                  body |-> getRefreshToken]),
              !.requests = Append(@, Request(r.isFormData, FALSE))]

\* lines 315-325: refreshToken up to its first await
StartRefresh(r) ==
    IF ~Truthy(getRefreshToken)
    THEN [r EXCEPT !.pc = "refreshThrown",
                   !.refreshCalls = @ + 1,
                   !.refresh = getRefreshToken,
                   !.refreshErr = NoRefreshTokenFound]
    ELSE [r EXCEPT !.pc = "refreshFetch",
                   !.refreshCalls = @ + 1,
                   !.refresh = getRefreshToken,
                   !.refreshRequests =
                       Append(@, [method |-> "POST",
                                  headers |-> refreshHeaders,
                                  body |-> getRefreshToken])]

\* variant: a rejected fetch() is handled like a 401 response
FetchSettledRetriesTransport(c, status) ==
    /\ calls[c].pc = "fetch"
    /\ LET r == [calls[c] EXCEPT !.status = status,
                                 !.first = IF calls[c].retry THEN status ELSE @]
       IN  Step(c, IF status = NetErr /\ ~r.retry
                   THEN Complete(r, TransportError, store)
                   ELSE IF status = NetErr \/ ShouldRefresh(status, r.retry)
                   THEN StartRefresh(r)
                   ELSE IF ~ResOk(status) THEN [r EXCEPT !.pc = "text"]
                   ELSE IF status = 204
                        THEN Complete(r, Resolved(status, NoFields), store)
                   ELSE [r EXCEPT !.pc = "json", !.jsonCalls = @ + 1])
    /\ UNCHANGED store

\* variant: the body of every ok response is parsed, 204 included
FetchSettledAlwaysJson(c, status) ==
    /\ calls[c].pc = "fetch"
    /\ LET r == [calls[c] EXCEPT !.status = status,
                                 !.first = IF calls[c].retry THEN status ELSE @]
       IN  Step(c, IF status = NetErr THEN Complete(r, TransportError, store)
                   ELSE IF ShouldRefresh(status, r.retry) THEN StartRefresh(r)
                   ELSE IF ~ResOk(status) THEN [r EXCEPT !.pc = "text"]
                   ELSE [r EXCEPT !.pc = "json", !.jsonCalls = @ + 1])
    /\ UNCHANGED store

\* lines 353-377: `await fetch(...)` settles with a response of the given
\* status, or rejects (NetErr)
FetchSettled(c, status) ==
    /\ calls[c].pc = "fetch"
    /\ LET r == [calls[c] EXCEPT !.status = status,
                                 !.first = IF calls[c].retry THEN status ELSE @]
       IN  Step(c, IF status = NetErr THEN Complete(r, TransportError, store)
                   ELSE IF ShouldRefresh(status, r.retry) THEN StartRefresh(r)
                   ELSE IF ~ResOk(status) THEN [r EXCEPT !.pc = "text"]
                   ELSE IF status = 204
                        THEN Complete(r, Resolved(status, NoFields), store)
                   ELSE [r EXCEPT !.pc = "json", !.jsonCalls = @ + 1])
    /\ UNCHANGED store

\* variant: a 401 that reaches the error branch ends the session
TextSettledClearsOn401(c, text) ==
    /\ calls[c].pc = "text"
    /\ IF calls[c].status = 401
       THEN /\ store' = removeItem(removeItem(store, KAccess), KRefresh)
            /\ Step(c, Complete(calls[c], SessionExpired, store'))
       ELSE /\ Step(c, Complete(calls[c],
                                HttpError(calls[c].status, text), store))
            /\ UNCHANGED store

\* lines 372-374: `await res.text()` settles and the HTTP error is thrown
TextSettled(c, text) ==
    /\ calls[c].pc = "text"
    /\ Step(c, Complete(calls[c], HttpError(calls[c].status, text), store))
    /\ UNCHANGED store

\* variant: the result of the reissued call is not returned, and the outer
\* call goes on with its own 401 response
JsonSettledDropsReissue(c, body) ==
    /\ calls[c].pc = "json"
    /\ Step(c, IF ~calls[c].retry
               THEN Complete(calls[c], HttpError(401, ""), store)
               ELSE IF body = Malformed
               THEN Complete(calls[c], ParseError, store)
               ELSE Complete(calls[c], Resolved(calls[c].status, body), store))
    /\ UNCHANGED store

\* line 377: `await res.json()` settles with a parsed body, or rejects
JsonSettled(c, body) ==
    /\ calls[c].pc = "json"
    /\ Step(c, IF body = Malformed
               THEN Complete(calls[c], ParseError, store)
               ELSE Complete(calls[c], Resolved(calls[c].status, body), store))
    /\ UNCHANGED store

(* ---------------------------- refreshToken ----------------------------- *)
\* lines 319-329: the refresh request settles
RefreshSettled(c, status) ==
    /\ calls[c].pc = "refreshFetch"
    /\ Step(c, IF status = NetErr
               THEN [calls[c] EXCEPT !.pc = "refreshThrown",
                                     !.refreshErr = RefreshTransportError]
               ELSE IF ~ResOk(status)
               THEN [calls[c] EXCEPT !.pc = "refreshThrown",
                                     !.refreshErr = UnableToRefresh]
               ELSE [calls[c] EXCEPT !.pc = "refreshJson"])
    /\ UNCHANGED store

\* variant: the new access token is returned but not stored
RefreshJsonSettledNoStore(c, body) ==
    /\ calls[c].pc = "refreshJson"
    /\ Step(c, IF body = Malformed
               THEN [calls[c] EXCEPT !.pc = "refreshThrown",
                                     !.refreshErr = RefreshParseError]
               ELSE [calls[c] EXCEPT !.pc = "refreshReturned",
                                     !.refreshed = body.access])
    /\ UNCHANGED store

\* variant: the refresh token of the response is stored as well
RefreshJsonSettledRotates(c, body) ==
    /\ calls[c].pc = "refreshJson"
    /\ IF body = Malformed
       THEN /\ Step(c, [calls[c] EXCEPT !.pc = "refreshThrown",
                                        !.refreshErr = RefreshParseError])
            /\ UNCHANGED store
       ELSE /\ store' = setItem(setItem(store, KAccess, body.access),
                                KRefresh, body.refresh)
            /\ Step(c, [calls[c] EXCEPT !.pc = "refreshReturned",
                                        !.refreshed = body.access])

\* lines 331-333: `await res.json()` of the refresh response settles; the
\* access token is overwritten and refreshToken returns
RefreshJsonSettled(c, body) ==
    /\ calls[c].pc = "refreshJson"
    /\ IF body = Malformed
       THEN /\ Step(c, [calls[c] EXCEPT !.pc = "refreshThrown",
                                        !.refreshErr = RefreshParseError])
            /\ UNCHANGED store
       ELSE /\ store' = setItem(store, KAccess, body.access)
            /\ Step(c, [calls[c] EXCEPT !.pc = "refreshReturned",
                                        !.refreshed = body.access])

\* variant: the reissue keeps the default retry = true
ReissueRetryTrue(c) ==
    /\ calls[c].pc = "refreshReturned"
    /\ Step(c, [calls[c] EXCEPT
                   !.pc = "fetch",
                   !.requests = Append(@, Request(calls[c].isFormData, TRUE))])
    /\ UNCHANGED store

\* variant: the reissue sends the headers built for the first request
ReissueCachedHeaders(c) ==
    /\ calls[c].pc = "refreshReturned"
    /\ Step(c, [calls[c] EXCEPT
                   !.pc = "fetch",
                   !.retry = FALSE,
                   !.requests =
                       IF Len(@) = 0 THEN @
                       ELSE Append(@, [Request(calls[c].isFormData, FALSE)
                                         EXCEPT !.headers = calls[c].requests[1].headers])])
    /\ UNCHANGED store

\* lines 362-363: `await refreshToken()` resumes and fetchAPI is called
\* again with retry = false; the headers are built anew
Reissue(c) ==
    /\ calls[c].pc = "refreshReturned"
    /\ Step(c, [calls[c] EXCEPT
                   !.pc = "fetch",
                   !.retry = FALSE,
                   !.requests = Append(@, Request(calls[c].isFormData, FALSE))])
    /\ UNCHANGED store

\* variant: only the access token is removed
RefreshCatchKeepsRefresh(c) ==
    /\ calls[c].pc = "refreshThrown"
    /\ store' = removeItem(store, KAccess)
    /\ Step(c, Complete(calls[c], SessionExpired, store'))

\* variant: the error of refreshToken is thrown on
RefreshCatchRethrows(c) ==
    /\ calls[c].pc = "refreshThrown"
    /\ store' = removeItem(removeItem(store, KAccess), KRefresh)
    /\ Step(c, Complete(calls[c],
                        [NoResult EXCEPT !.kind = calls[c].refreshErr], store'))

\* variant: the two removals are separate segments
RefreshCatchTwoSteps(c) ==
    /\ calls[c].pc = "refreshThrown"
    /\ IF store[KAccess] # Null
       THEN /\ store' = removeItem(store, KAccess)
            /\ Step(c, calls[c])
       ELSE /\ store' = removeItem(store, KRefresh)
            /\ Step(c, Complete(calls[c], SessionExpired, store'))

\* variant: only the refresh token is removed
RefreshCatchKeepsAccess(c) ==
    /\ calls[c].pc = "refreshThrown"
    /\ store' = removeItem(store, KRefresh)
    /\ Step(c, Complete(calls[c], SessionExpired, store'))

\* variant: the session is ended only once no other call is in progress
RefreshCatchWaits(c) ==
    /\ calls[c].pc = "refreshThrown"
    /\ \A d \in Calls \ {c} : ~Active(calls[d])
    /\ store' = removeItem(removeItem(store, KAccess), KRefresh)
    /\ Step(c, Complete(calls[c], SessionExpired, store'))

\* lines 364-368: `await refreshToken()` resumes with the rejection
RefreshCatch(c) ==
    /\ calls[c].pc = "refreshThrown"
    /\ store' = removeItem(removeItem(store, KAccess), KRefresh)
    /\ Step(c, Complete(calls[c], SessionExpired, store'))

(* -------------------------------- login -------------------------------- *)
\* variant: only the access token of the response is stored
LoginContAccessOnly(c) ==
    /\ calls[c].pc = "loginCont"
    /\ LET res == calls[c].result
       IN  IF res.status = 204 \/ ~res.body.hasData
           THEN /\ Step(c, [calls[c] EXCEPT !.pc = "done", !.endStore = store,
                                            !.outcome = "TypeError"])
                /\ UNCHANGED store
           ELSE /\ store' = setItem(store, KAccess, res.body.dAccess)
                /\ Step(c, [calls[c] EXCEPT !.pc = "done", !.endStore = store',
                                            !.outcome = "resolved"])

\* lines 389-396: login resumes after `await fetchAPI("auth/login/", ...)`
LoginCont(c) ==
    /\ calls[c].pc = "loginCont"
    /\ LET res == calls[c].result
       IN  IF res.status = 204 \/ ~res.body.hasData
           THEN /\ Step(c, [calls[c] EXCEPT !.pc = "done", !.endStore = store,
                                            !.outcome = "TypeError"])
                /\ UNCHANGED store
           ELSE IF Truthy(res.body.dAccess) /\ Truthy(res.body.dRefresh)
           THEN /\ store' = setItem(setItem(store, KAccess, res.body.dAccess),
                                    KRefresh, res.body.dRefresh)
                /\ Step(c, [calls[c] EXCEPT !.pc = "done", !.endStore = store',
                                            !.outcome = "resolved"])
           ELSE /\ Step(c, [calls[c] EXCEPT
                              !.pc = "done", !.endStore = store,
                              !.outcome = "Login failed: invalid response"])
                /\ UNCHANGED store

(* ------------------------------- register ----------------------------- *)
\* variant: register stores the pair of the response as login does
RegisterContStores(c) ==
    /\ calls[c].pc = "registerCont"
    /\ LET res == calls[c].result
       IN  IF res.status # 204 /\ res.body.hasData
           THEN /\ store' = setItem(setItem(store, KAccess, res.body.dAccess),
                                    KRefresh, res.body.dRefresh)
                /\ Step(c, [calls[c] EXCEPT !.pc = "done", !.endStore = store',
                                            !.outcome = "resolved"])
           ELSE /\ Step(c, [calls[c] EXCEPT !.pc = "done", !.endStore = store,
                                            !.outcome = "TypeError"])
                /\ UNCHANGED store

\* lines 418-423: register resumes after `await fetchAPI("auth/register/",
\* ...)`.  res is the parsed body (null for 204), not a Response: `res.ok`
\* of null throws, and without a truthy `ok` field `res.json()` is called,
\* which is not a function.
RegisterCont(c) ==
    /\ calls[c].pc = "registerCont"
    /\ LET res == calls[c].result
       IN  Step(c, [calls[c] EXCEPT
                      !.pc = "done",
                      !.endStore = store,
                      !.outcome = IF res.status # 204 /\ res.body.ok
                                  THEN "resolved" ELSE "TypeError"])
    /\ UNCHANGED store

(* -------------------------------- logout ------------------------------- *)
\* lines 433-442: logout calls fetchAPI("auth/logout/", "POST") without
\* awaiting it, removes two keys and returns; the request stays in flight
CallLogout(c) ==
    /\ calls[c].pc = "idle"
    /\ (c - 1 \in Calls \ Observed) => calls[c - 1].pc # "idle"
    /\ store' = removeItem(removeItem(store, KLogoutAccess), KLogoutRefresh)
    /\ Step(c, [calls[c] EXCEPT !.pc = "fetch",
                                !.fn = "logout",
                                !.retry = TRUE,
                                !.requests = <<Request(FALSE, TRUE)>>,
                                !.endStore = store',
                                !.outcome = "resolved"])

(* ------------------------------ behaviour ------------------------------ *)
\* localStorage is empty, or holds the pair an earlier login stored
Init ==
    /\ store \in {EmptyStore,
                  [EmptyStore EXCEPT ![KAccess] = "A1", ![KRefresh] = "R0"]}
    /\ calls = [c \in Calls |-> IdleCall]

Next ==
    \E c \in Calls :
        \/ \E isFormData \in BOOLEAN : CallFetchAPI(c, "fetchAPI", isFormData)
        \/ CallFetchAPI(c, "login", FALSE)
        \/ \E status \in Statuses \cup {NetErr} : FetchSettled(c, status)
        \/ \E text \in Texts : TextSettled(c, text)
        \/ \E body \in Bodies \cup {Malformed} : JsonSettled(c, body)
        \/ \E status \in Statuses \cup {NetErr} : RefreshSettled(c, status)
        \/ \E body \in Bodies \cup {Malformed} : RefreshJsonSettled(c, body)
        \/ Reissue(c)
        \/ RefreshCatch(c)
        \/ LoginCont(c)

Spec == Init /\ [][Next]_vars

\* register and logout (login is part of Next)
NextAuth ==
    \E c \in Calls :
        \/ CallFetchAPI(c, "register", FALSE)
        \/ CallLogout(c)
        \/ \E status \in Statuses \cup {NetErr} : FetchSettled(c, status)
        \/ \E text \in Texts : TextSettled(c, text)
        \/ \E body \in RegisterBodies \cup {Malformed} : JsonSettled(c, body)
        \/ \E status \in Statuses \cup {NetErr} : RefreshSettled(c, status)
        \/ \E body \in Bodies \cup {Malformed} : RefreshJsonSettled(c, body)
        \/ Reissue(c)
        \/ RefreshCatch(c)
        \/ RegisterCont(c)

SpecAuth == Init /\ [][NextAuth]_vars

\* Termination depends on the course a call takes, not on the tokens and
\* texts it is handed: one body of each kind that is told apart, one text.
LiveBodies == {NoFields, [NoFields EXCEPT !.access = "A2"], Malformed}
LiveTexts == {"denied"}

\* what call c does once a request or a body read it awaits has settled, or
\* once its `await refreshToken()` resumes
Settle(c) ==
    \/ \E status \in Statuses \cup {NetErr} : FetchSettled(c, status)
    \/ \E text \in LiveTexts : TextSettled(c, text)
    \/ \E body \in LiveBodies : JsonSettled(c, body)
    \/ \E status \in Statuses \cup {NetErr} : RefreshSettled(c, status)
    \/ \E body \in LiveBodies : RefreshJsonSettled(c, body)
    \/ Reissue(c)
    \/ RefreshCatch(c)

NextLive ==
    \E c \in Calls :
        \/ \E isFormData \in BOOLEAN : CallFetchAPI(c, "fetchAPI", isFormData)
        \/ Settle(c)

\* Every request and every body read settles (a request runs to completion
\* or failure), and the event loop runs every continuation that is ready:
\* a call that can take its next step does not stay suspended for ever.
SpecLive == Init /\ [][NextLive]_vars /\ \A c \in Calls : WF_vars(Settle(c))

TypeOK ==
    /\ store \in [Keys -> {Null, "undefined", "R0"}
                          \cup AccessValues \cup RefreshValues]
    /\ \A c \in Calls : calls[c].pc \in
          {"idle", "fetch", "text", "json", "refreshFetch", "refreshJson",
           "refreshReturned", "refreshThrown", "loginCont", "registerCont",
           "done"}

(* ------------------------------ properties ----------------------------- *)
\* fetchAPI has resolved or thrown
FetchDone(r) == r.pc \in {"loginCont", "registerCont", "done"}

\* refreshToken has returned (data.access is then recorded, never Null)
RefreshSucceeded(r) == r.refreshed # Null

\* the call has sent the reissued request and has its response
ReissueAnswered(r) == FetchDone(r) /\ Len(r.requests) = 2 /\ r.status # NetErr

Cleared(st) == st[KAccess] = Null /\ st[KRefresh] = Null

\* C1: one fetchAPI call sends at most two requests to its endpoint and at
\* most one request to the refresh endpoint, and calls refreshToken at most
\* once, whatever the server answers.
C1_BoundedRetry ==
    \A c \in Observed :
        /\ Len(calls[c].requests) <= 2
        /\ Len(calls[c].refreshRequests) <= 1
        /\ calls[c].refreshCalls <= 1

\* a call that was answered 401 twice and has finished
C1_Witness ==
    \E c \in Observed :
        /\ calls[c].pc = "done"
        /\ calls[c].first = 401 /\ calls[c].status = 401
        /\ Len(calls[c].requests) = 2 /\ Len(calls[c].refreshRequests) = 1

\* C2 as stated: every finished call whose first response was 401 has made
\* exactly one refresh attempt and exactly one reissued request, the latter
\* with retry = false.
C2_AlwaysReissued ==
    \A c \in Observed :
        (FetchDone(calls[c]) /\ calls[c].first = 401) =>
            /\ calls[c].refreshCalls = 1
            /\ Len(calls[c].requests) = 2
            /\ calls[c].requests[2].retry = FALSE

\* C2 amended: a finished call whose first response was 401 has called
\* refreshToken exactly once; if the refresh succeeded it has reissued the
\* request exactly once, with retry = false, and has not refreshed again
\* even when the reissue was answered 401; if the refresh failed it has not
\* reissued.  A reissue never precedes a successful refresh.
C2_RefreshThenReissue ==
    \A c \in Observed :
        /\ (FetchDone(calls[c]) /\ calls[c].first = 401) =>
              /\ calls[c].refreshCalls = 1
              /\ Len(calls[c].refreshRequests) <= 1
              /\ RefreshSucceeded(calls[c]) =>
                    /\ Len(calls[c].requests) = 2
                    /\ calls[c].requests[2].retry = FALSE
              /\ ~RefreshSucceeded(calls[c]) => Len(calls[c].requests) = 1
        /\ Len(calls[c].requests) >= 2 =>
              /\ RefreshSucceeded(calls[c])
              /\ calls[c].requests[1].retry = TRUE

\* a call whose reissued request was answered 401 as well
C2_Witness ==
    \E c \in Observed :
        /\ ReissueAnswered(calls[c])
        /\ calls[c].first = 401 /\ calls[c].status = 401
        /\ calls[c].refreshCalls = 1
        /\ calls[c].requests[2].retry = FALSE

\* C3: when the refresh of a call fails by a network error or by a non-2xx
\* response, the call fails with the session-expired error and both tokens
\* are absent from localStorage when it does.
C3_RefreshFailureClears ==
    \A c \in Observed :
        (/\ FetchDone(calls[c])
         /\ calls[c].refreshErr \in {RefreshTransportError, UnableToRefresh}) =>
            /\ calls[c].result = SessionExpired
            /\ Cleared(calls[c].doneStore)

\* a call that sent its request with a stored token and whose refresh was
\* answered with a non-2xx status
C3_Witness ==
    \E c \in Observed :
        /\ calls[c].pc = "done"
        /\ calls[c].refreshErr = UnableToRefresh
        /\ calls[c].requests[1].stored = "A1"
        /\ calls[c].refreshRequests[1].body = "R0"

\* C4 as stated: when the refresh succeeded and the reissued request is
\* answered 401 again, the call fails with the session-expired error and
\* both tokens are absent from localStorage.
C4_Persisting401Clears ==
    \A c \in Observed :
        (/\ ReissueAnswered(calls[c])
         /\ RefreshSucceeded(calls[c])
         /\ calls[c].status = 401) =>
            /\ calls[c].result = SessionExpired
            /\ Cleared(calls[c].doneStore)

\* C5: with no other call interleaved, a call whose refresh succeeded with
\* an access value in the response leaves exactly that value as the stored
\* access token when it completes, whatever the reissued request returned.
C5_StoredIsRefreshed ==
    \A c \in Observed :
        (/\ FetchDone(calls[c])
         /\ calls[c].alone
         /\ calls[c].refreshed \in AccessValues) =>
            calls[c].doneStore[KAccess] = calls[c].refreshed

\* an uninterleaved call refreshed A1 to A2 and its reissue failed with 401
C5_Witness ==
    \E c \in Observed :
        /\ calls[c].pc = "done" /\ calls[c].alone
        /\ calls[c].requests[1].stored = "A1"
        /\ calls[c].refreshed = "A2"
        /\ ReissueAnswered(calls[c]) /\ calls[c].status = 401
        /\ calls[c].doneStore[KAccess] = "A2"

\* C6 as stated: in every interleaving the reissued request of a call whose
\* refresh succeeded carries the access value returned by that refresh.
C6_ReissueCarriesOwnRefresh ==
    \A c \in Observed :
        (Len(calls[c].requests) = 2 /\ calls[c].refreshed \in AccessValues) =>
            Authorization(calls[c].refreshed) \in calls[c].requests[2].headers

\* C6 amended: the reissued request carries the access token localStorage
\* holds when it is sent (no Authorization header if it holds none); that
\* is the value returned by the call's own refresh when no other call ran
\* in between.
C6_ReissueCarriesStored ==
    \A c \in Observed :
        Len(calls[c].requests) = 2 =>
            LET req == calls[c].requests[2]
            IN  /\ \A t \in AccessValues \cup {"undefined"} :
                      Authorization(t) \in req.headers <=> req.stored = t
                /\ (calls[c].alone /\ calls[c].refreshed \in AccessValues) =>
                      Authorization(calls[c].refreshed) \in req.headers

\* an uninterleaved call reissued with the token its refresh returned
C6_Witness ==
    \E c \in Observed :
        /\ Len(calls[c].requests) = 2 /\ calls[c].alone
        /\ calls[c].refreshed = "A2"
        /\ Authorization("A1") \in calls[c].requests[1].headers
        /\ Authorization("A2") \in calls[c].requests[2].headers

\* C7: a call whose first response has a status other than 401 sends
\* exactly one request and never calls or requests a refresh.
C7_SingleRequest ==
    \A c \in Observed :
        (FetchDone(calls[c]) /\ calls[c].first \in Statuses \ {401}) =>
            /\ Len(calls[c].requests) = 1
            /\ Len(calls[c].refreshRequests) = 0
            /\ calls[c].refreshCalls = 0

\* a call that failed with status 500
C7_Witness ==
    \E c \in Observed :
        /\ calls[c].pc = "done" /\ calls[c].first = 500
        /\ calls[c].result.status = 500
        /\ Len(calls[c].requests) = 1

\* the header set C8 describes for a request sent while localStorage holds
\* `stored` under the access key
C8_Expected(isFormData, stored) ==
    IF isFormData
    THEN (IF stored # Null THEN {Authorization(stored)} ELSE {})
    ELSE (IF stored # Null THEN {ContentTypeJson, Authorization(stored)}
          ELSE {ContentTypeJson})

\* C8: every request of fetchAPI has exactly these headers: for form data
\* the bearer header if a token is stored and nothing else; otherwise the
\* JSON content type, plus the bearer header iff a token is stored.
C8_Headers ==
    \A c \in Observed :
        \A i \in 1..Len(calls[c].requests) :
            calls[c].requests[i].headers =
                C8_Expected(calls[c].isFormData, calls[c].requests[i].stored)

\* a form-data call sent with a token and reissued after the token was removed
C8_Witness ==
    \E c \in Observed :
        /\ calls[c].isFormData
        /\ Len(calls[c].requests) = 2
        /\ calls[c].requests[1].headers = {Authorization("A1")}
        /\ calls[c].requests[2].headers = {}

\* C9: when a call is answered 401 and no refresh token is stored, no
\* request goes to the refresh endpoint, the call fails with the
\* session-expired error and localStorage holds neither token.
C9_NoRefreshToken ==
    \A c \in Observed :
        (calls[c].refreshCalls = 1 /\ calls[c].refresh = Null) =>
            /\ Len(calls[c].refreshRequests) = 0
            /\ calls[c].refreshErr = NoRefreshTokenFound
            /\ FetchDone(calls[c]) =>
                  /\ calls[c].result = SessionExpired
                  /\ Cleared(calls[c].doneStore)

\* a call answered 401 while localStorage was empty
C9_Witness ==
    \E c \in Observed :
        /\ calls[c].pc = "done" /\ calls[c].first = 401
        /\ calls[c].refreshCalls = 1 /\ calls[c].refresh = Null
        /\ calls[c].refreshErr = NoRefreshTokenFound
        /\ Cleared(calls[c].doneStore)

\* C10 as stated: when a refresh is attempted with no refresh token stored,
\* the caller of fetchAPI gets the "No refresh token found" error.
C10_RefreshUnavailableSurfaced ==
    \A c \in Observed :
        (FetchDone(calls[c]) /\ calls[c].refreshErr = NoRefreshTokenFound) =>
            calls[c].outcome = NoRefreshTokenFound

\* C10 amended: "No refresh token found" is thrown inside refreshToken only;
\* fetchAPI catches it and its caller gets the session-expired error.
C10_RefreshUnavailableWrapped ==
    \A c \in Observed :
        /\ calls[c].outcome # NoRefreshTokenFound
        /\ calls[c].result.kind # NoRefreshTokenFound
        /\ (FetchDone(calls[c]) /\ calls[c].refreshErr = NoRefreshTokenFound) =>
              calls[c].outcome = SessionExpired.kind

\* a login answered 401 while localStorage was empty
C10_Witness ==
    \E c \in Observed :
        /\ calls[c].pc = "done" /\ calls[c].fn = "login"
        /\ calls[c].refreshErr = NoRefreshTokenFound
        /\ calls[c].outcome = SessionExpired.kind

\* C11 as stated: once logout() has returned, neither the access token nor
\* the refresh token of the fetch client is left in localStorage.
C11_LogoutDeletes ==
    \A c \in Observed :
        (calls[c].fn = "logout" /\ calls[c].outcome = "resolved") =>
            Cleared(calls[c].endStore)

\* C12 as stated: when login's request succeeds with the JSON body
\* {access: A, refresh: R}, localStorage holds access = A and refresh = R
\* once login() has completed.
C12_LoginStoresTopLevelPair ==
    \A c \in Observed :
        (/\ calls[c].fn = "login" /\ calls[c].pc = "done"
         /\ calls[c].result.kind = "resolved"
         /\ Truthy(calls[c].result.body.access)
         /\ Truthy(calls[c].result.body.refresh)) =>
            /\ calls[c].endStore[KAccess] = calls[c].result.body.access
            /\ calls[c].endStore[KRefresh] = calls[c].result.body.refresh

\* C12 amended: login reads the pair from the `data` object of the body.
\* When the request succeeds with {data: {access: A, refresh: R}}, login
\* resolves and localStorage holds access = A and refresh = R as it
\* completes; a body without `data` makes login throw and store nothing.
C12_LoginStoresDataPair ==
    \A c \in Observed :
        (/\ calls[c].fn = "login" /\ calls[c].pc = "done"
         /\ calls[c].result.kind = "resolved") =>
            LET body == calls[c].result.body
            IN  /\ (/\ calls[c].result.status # 204 /\ body.hasData
                    /\ Truthy(body.dAccess) /\ Truthy(body.dRefresh)) =>
                      /\ calls[c].outcome = "resolved"
                      /\ calls[c].endStore[KAccess] = body.dAccess
                      /\ calls[c].endStore[KRefresh] = body.dRefresh
                /\ ~body.hasData =>
                      /\ calls[c].outcome = "TypeError"
                      /\ calls[c].alone => calls[c].endStore = calls[c].doneStore

\* a login that began on an empty localStorage and stored the pair
C12_Witness ==
    \E c \in Observed :
        /\ calls[c].fn = "login" /\ calls[c].pc = "done"
        /\ calls[c].requests[1].stored = Null
        /\ calls[c].result.body.hasData
        /\ calls[c].outcome = "resolved"
        /\ calls[c].endStore[KAccess] = "A2"
        /\ calls[c].endStore[KRefresh] = "R2"

\* C13 as stated: after register() has completed for a request the server
\* accepted, localStorage holds an access token and a refresh token.
C13_RegisterCreatesPair ==
    \A c \in Observed :
        (/\ calls[c].fn = "register" /\ calls[c].pc = "done"
         /\ calls[c].first \in {200, 204}) =>
            /\ Truthy(calls[c].endStore[KAccess])
            /\ Truthy(calls[c].endStore[KRefresh])

\* C13 amended: register writes nothing to localStorage.  With no other
\* call interleaved, localStorage is the same when register() completes as
\* when its fetchAPI call completed, and when no access token is stored as
\* an accepted registration is requested, none is stored at the end.
C13_RegisterStoresNothing ==
    \A c \in Observed :
        (calls[c].fn = "register" /\ calls[c].pc = "done" /\ calls[c].alone) =>
            /\ calls[c].endStore = calls[c].doneStore
            /\ (calls[c].first \in {200, 204}
                    /\ calls[c].requests[1].stored = Null) =>
                  calls[c].endStore[KAccess] = Null

\* a registration answered 200 with a pair of tokens, none of which is stored
C13_Witness ==
    \E c \in Observed :
        /\ calls[c].fn = "register" /\ calls[c].pc = "done" /\ calls[c].alone
        /\ calls[c].first = 200
        /\ calls[c].result.body.hasData
        /\ calls[c].requests[1].stored = Null
        /\ Cleared(calls[c].endStore)

\* strings localStorage may hold under the access key
StoredAccessValues == AccessValues \cup {"undefined"}

\* C14: a successful run of refreshToken changes the access token only:
\* neither the step that receives the refresh response nor the step that
\* stores the new access token changes the stored refresh token.
C14_RefreshKeepsRefreshToken ==
    [][\A c \in Calls :
          (/\ calls[c].pc \in {"refreshFetch", "refreshJson"}
           /\ calls'[c].pc \in {"refreshJson", "refreshReturned"}
           /\ calls'[c].pc # calls[c].pc) =>
              store'[KRefresh] = store[KRefresh]]_vars

\* an uninterleaved call whose refresh replaced A1 by A2 and left R0
C14_Witness ==
    \E c \in Observed :
        /\ calls[c].pc = "refreshReturned" /\ calls[c].alone
        /\ calls[c].requests[1].stored = "A1"
        /\ calls[c].refresh = "R0" /\ calls[c].refreshed = "A2"
        /\ store[KAccess] = "A2" /\ store[KRefresh] = "R0"

\* C15: refreshes are not serialized.  A call answered 401 while a refresh
\* token is stored sends its own refresh request whatever other calls are
\* doing, and a successful refresh overwrites the stored access token with
\* its own value whatever is stored then: the last writer wins.
C15_UnserializedRefresh ==
    [][\A c \in Observed :
          /\ (/\ calls[c].pc = "fetch" /\ calls[c].retry
              /\ calls'[c].pc # "fetch" /\ calls'[c].status = 401
              /\ Truthy(store[KRefresh])) =>
                /\ calls'[c].pc = "refreshFetch"
                /\ Len(calls'[c].refreshRequests) = 1
          /\ (calls[c].pc = "refreshJson" /\ calls'[c].pc = "refreshReturned") =>
                store'[KAccess] = ToStorage(calls'[c].refreshed)]_vars

\* two calls have refreshed side by side; the first call stored A2 and the
\* other call's refresh has overwritten it with A1
C15_Witness ==
    /\ calls[1].pc = "refreshReturned" /\ calls[1].refreshed = "A2"
    /\ Len(calls[1].refreshRequests) = 1
    /\ calls[2].pc = "refreshReturned"
    /\ store[KAccess] = "A1"

\* C16: no token is cached.  Whenever a call sends a request, first or
\* reissued, its Authorization header carries the access token localStorage
\* holds at that moment, and there is none if localStorage holds none.
C16_HeadersFromStorage ==
    [][\A c \in Observed :
          Len(calls'[c].requests) > Len(calls[c].requests) =>
              LET req == calls'[c].requests[Len(calls'[c].requests)]
              IN  \A t \in StoredAccessValues :
                      Authorization(t) \in req.headers <=> store[KAccess] = t]_vars

\* a call whose own refresh returned A1 reissued its request with A2, which
\* another call had stored in the meantime
C16_Witness ==
    \E c \in Observed :
        /\ Len(calls[c].requests) = 2
        /\ calls[c].refreshed = "A1"
        /\ calls[c].requests[2].stored = "A2"
        /\ Authorization("A2") \in calls[c].requests[2].headers

\* C17: the clear of a failed refresh is one step.  Every step that removes
\* the access token or the refresh token leaves both absent, so no other
\* call runs while one is removed and the other is not.
C17_ClearIsAtomic ==
    [][(\/ (store[KAccess] # Null /\ store'[KAccess] = Null)
        \/ (store[KRefresh] # Null /\ store'[KRefresh] = Null)) =>
           Cleared(store')]_vars

\* a call's failed refresh has cleared both tokens while another call is
\* in progress
C17_Witness ==
    \E c \in Observed :
        /\ calls[c].pc = "done" /\ calls[c].result = SessionExpired
        /\ calls[c].requests[1].stored = "A1" /\ calls[c].refresh = "R0"
        /\ Cleared(calls[c].doneStore)
        /\ \E d \in Calls \ {c} : Active(calls[d])

\* C18: a call answered 401, then refreshed successfully, then answered 200
\* with a parsable JSON body resolves to that body after exactly one
\* refresh and one reissue; its caller sees no error.
C18_TransparentRetry ==
    \A c \in Observed :
        (/\ FetchDone(calls[c]) /\ calls[c].first = 401
         /\ RefreshSucceeded(calls[c]) /\ Len(calls[c].requests) = 2
         /\ calls[c].status = 200 /\ calls[c].result # ParseError) =>
            /\ calls[c].result.kind = "resolved"
            /\ calls[c].result.status = 200
            /\ calls[c].result.body \in Bodies
            /\ calls[c].refreshCalls = 1
            /\ Len(calls[c].refreshRequests) = 1
            /\ calls[c].jsonCalls = 1
            /\ calls[c].fn = "fetchAPI" => calls[c].outcome = "resolved"

\* a call sent with the expired A1 resolved to the body of its reissue
C18_Witness ==
    \E c \in Observed :
        /\ calls[c].pc = "done" /\ calls[c].fn = "fetchAPI"
        /\ calls[c].first = 401 /\ calls[c].status = 200
        /\ calls[c].requests[1].stored = "A1" /\ calls[c].refreshed = "A2"
        /\ Authorization("A2") \in calls[c].requests[2].headers
        /\ calls[c].outcome = "resolved"
        /\ calls[c].result.body.access = "A1"

\* C19: a response that is not ok and does not take the refresh path (any
\* error status but a 401 with retry still true) has its body read as text;
\* the call then fails with the error made of the status and that text,
\* sends no further request and changes neither stored token.
C19_HttpErrorOnly ==
    [][\A c \in Observed :
          /\ (/\ calls[c].pc = "fetch" /\ calls'[c].pc # "fetch"
              /\ calls'[c].status # NetErr /\ ~ResOk(calls'[c].status)
              /\ ~(calls'[c].status = 401 /\ calls[c].retry)) =>
                /\ calls'[c].pc = "text"
                /\ store' = store
                /\ calls'[c].requests = calls[c].requests
                /\ calls'[c].refreshCalls = calls[c].refreshCalls
          /\ (calls[c].pc = "text" /\ calls'[c].pc # "text") =>
                /\ FetchDone(calls'[c])
                /\ \E text \in Texts :
                      calls'[c].result = HttpError(calls[c].status, text)
                /\ store' = store
                /\ calls'[c].requests = calls[c].requests
                /\ calls'[c].refreshCalls = calls[c].refreshCalls
                /\ calls'[c].refreshRequests = calls[c].refreshRequests]_vars

\* an uninterleaved call failed with "Error 500: oops" and left the pair
C19_Witness ==
    \E c \in Observed :
        /\ calls[c].pc = "done" /\ calls[c].alone
        /\ calls[c].result = HttpError(500, "oops")
        /\ Len(calls[c].requests) = 1 /\ calls[c].refreshCalls = 0
        /\ calls[c].doneStore[KAccess] = "A1"
        /\ calls[c].doneStore[KRefresh] = "R0"

\* C20: an ok response with status 204 resolves to null and res.json() is
\* never called; every other ok response has its body parsed once and the
\* call resolves to the parsed body (or fails as the parse fails).
C20_NoContent ==
    \A c \in Observed :
        (FetchDone(calls[c]) /\ ResOk(calls[c].status)) =>
            IF calls[c].status = 204
            THEN /\ calls[c].result = Resolved(204, NoFields)
                 /\ calls[c].jsonCalls = 0
            ELSE /\ calls[c].jsonCalls = 1
                 /\ \/ calls[c].result = ParseError
                    \/ \E body \in Bodies :
                          calls[c].result = Resolved(calls[c].status, body)

\* a reissued request answered 204
C20_Witness ==
    \E c \in Observed :
        /\ calls[c].pc = "done" /\ calls[c].status = 204
        /\ Len(calls[c].requests) = 2
        /\ calls[c].result.kind = "resolved"
        /\ calls[c].jsonCalls = 0

\* C21: every request sent to the refresh endpoint is a POST whose only
\* header is the JSON content type (no Authorization header, whatever access
\* token is stored) and whose body carries the refresh token that
\* localStorage holds when the request is sent.
C21_RefreshRequestShape ==
    [][\A c \in Observed :
          Len(calls'[c].refreshRequests) > Len(calls[c].refreshRequests) =>
             LET q == calls'[c].refreshRequests[Len(calls'[c].refreshRequests)]
             IN  /\ Len(calls'[c].refreshRequests) =
                        Len(calls[c].refreshRequests) + 1
                 /\ q.method = "POST"
                 /\ q.headers = {ContentTypeJson}
                 /\ \A h \in q.headers : h[1] # "Authorization"
                 /\ q.body = store[KRefresh]
                 /\ Truthy(q.body)]_vars

\* a refresh request went out while an access token was stored
C21_Witness ==
    \E c \in Observed :
        /\ calls[c].pc = "refreshFetch"
        /\ Len(calls[c].refreshRequests) = 1
        /\ calls[c].refreshRequests[1].body = "R0"
        /\ store[KAccess] = "A1"
        /\ Authorization("A1") \in calls[c].requests[1].headers

\* C22: a rejected fetch() and a failed res.json() end the call with that
\* same error, in the same step: nothing is sent, refreshToken is not
\* called and localStorage is not written.  When it is the first request
\* that was rejected, the call has sent one request and never refreshed.
C22_FailuresPropagate ==
    [][\A c \in Observed :
          /\ (/\ calls[c].pc = "fetch" /\ calls'[c].pc # "fetch"
              /\ calls'[c].status = NetErr) =>
                /\ calls'[c].pc = "done"
                /\ calls'[c].result = TransportError
                /\ calls'[c].outcome = TransportError.kind
                /\ store' = store
                /\ calls'[c].requests = calls[c].requests
                /\ calls'[c].refreshCalls = calls[c].refreshCalls
                /\ calls'[c].refreshRequests = calls[c].refreshRequests
                /\ calls[c].retry =>
                      /\ Len(calls'[c].requests) = 1
                      /\ calls'[c].refreshCalls = 0
          /\ (calls[c].pc = "json" /\ calls'[c].pc # "json") =>
                /\ FetchDone(calls'[c])
                /\ calls'[c].result.kind \in {ParseError.kind, "resolved"}
                /\ calls'[c].result = ParseError =>
                      /\ calls'[c].pc = "done"
                      /\ calls'[c].outcome = ParseError.kind
                /\ store' = store
                /\ calls'[c].requests = calls[c].requests
                /\ calls'[c].refreshCalls = calls[c].refreshCalls
                /\ calls'[c].refreshRequests = calls[c].refreshRequests]_vars

\* an uninterleaved call whose only request was rejected left the pair
C22_Witness ==
    \E c \in Observed :
        /\ calls[c].pc = "done" /\ calls[c].alone
        /\ calls[c].first = NetErr
        /\ calls[c].result = TransportError
        /\ Len(calls[c].requests) = 1 /\ calls[c].refreshCalls = 0
        /\ calls[c].doneStore[KAccess] = "A1"
        /\ calls[c].doneStore[KRefresh] = "R0"

\* C23: within one call the order is request, refresh, reissue.  The refresh
\* request is sent in the step in which the response of the first (and so
\* far only) request arrives and is 401; the refreshed access token is
\* written to localStorage in the step in which the refresh response has
\* been parsed; the reissued request is sent only after that, by a call
\* whose refresh has returned.  A call never has two requests in flight:
\* when the second request is sent the first has been answered.
C23_StrictOrder ==
    [][\A c \in Observed :
          /\ Len(calls'[c].refreshRequests) > Len(calls[c].refreshRequests) =>
                /\ calls[c].pc = "fetch" /\ calls'[c].pc = "refreshFetch"
                /\ Len(calls[c].requests) = 1
                /\ calls[c].first = -1 /\ calls'[c].first = 401
                /\ calls'[c].requests = calls[c].requests
          /\ calls'[c].refreshed # calls[c].refreshed =>
                /\ calls[c].pc = "refreshJson"
                /\ calls'[c].pc = "refreshReturned"
                /\ Len(calls[c].refreshRequests) = 1
                /\ store'[KAccess] = ToStorage(calls'[c].refreshed)
                /\ calls'[c].requests = calls[c].requests
          /\ (Len(calls[c].requests) >= 1 /\
              Len(calls'[c].requests) > Len(calls[c].requests)) =>
                /\ calls[c].pc = "refreshReturned" /\ calls'[c].pc = "fetch"
                /\ calls[c].first = 401
                /\ Len(calls[c].refreshRequests) = 1
                /\ RefreshSucceeded(calls[c])
                /\ Len(calls'[c].requests) = 2
          /\ calls'[c].pc \in {"refreshFetch", "refreshJson", "refreshReturned",
                               "refreshThrown"} =>
                Len(calls'[c].requests) = 1 /\ calls'[c].first = 401]_vars

\* the three requests of one call have gone out one after the other
C23_Witness ==
    \E c \in Observed :
        /\ calls[c].pc = "fetch" /\ ~calls[c].retry
        /\ calls[c].first = 401
        /\ Len(calls[c].refreshRequests) = 1
        /\ calls[c].refreshed = "A2" /\ store[KAccess] = "A2"
        /\ Len(calls[c].requests) = 2

\* C24: every fetchAPI call that has been started eventually resolves or
\* rejects, whatever the other calls do, given that every request it awaits
\* settles; and a call in progress can always take its next step, whatever
\* position the other calls are in (it waits for no other call and no lock).
C24_EveryCallCompletes ==
    /\ [](\A c \in Calls : Active(calls[c]) => ENABLED Settle(c))
    /\ \A c \in Calls : (calls[c].pc # "idle") ~> (calls[c].pc = "done")

\* every call has completed; the observed one refreshed and reissued while
\* another call was running
C24_Witness ==
    /\ \A c \in Calls : calls[c].pc = "done"
    /\ \E c \in Observed :
          /\ ~calls[c].alone
          /\ Len(calls[c].requests) = 2
          /\ calls[c].result.kind = "resolved"

\* localStorage holds a refresh token whenever it holds an access token
PairOK(st) == st[KAccess] # Null => st[KRefresh] # Null

\* C27 (as claimed): in every reachable state a stored access token comes
\* with a stored refresh token.
C27_CredentialPair == PairOK(store)

\* C27 (amended): the only step that leaves an access token stored without
\* a refresh token is the write of a refresh that returns after the refresh
\* token has been removed (another call ended the session in between);
\* every other step keeps "access implies refresh".
C27_PairBrokenOnlyByLateRefresh ==
    [][(PairOK(store) /\ ~PairOK(store')) =>
          /\ store[KRefresh] = Null
          /\ store'[KRefresh] = Null
          /\ \E c \in Calls :
                /\ calls[c].pc = "refreshJson"
                /\ calls'[c].pc = "refreshReturned"
                /\ c \in Observed =>
                      /\ ~calls[c].alone
                      /\ calls[c].refresh # Null
                      /\ store'[KAccess] = ToStorage(calls'[c].refreshed)]_vars

\* the observed call sent its refresh request with R0, another call ended
\* the session, then the observed call's refresh wrote A2
C27_Witness ==
    \E c \in Observed :
        /\ calls[c].pc = "refreshReturned" /\ ~calls[c].alone
        /\ calls[c].refresh = "R0" /\ calls[c].refreshed = "A2"
        /\ store[KAccess] = "A2" /\ store[KRefresh] = Null

\* C28 (as claimed): a login whose request is answered 401, with no other
\* call interleaved, ends with both stored tokens as they were when it
\* began and has sent nothing but its one login request.
C28_FailedLoginLeavesTokens ==
    \A c \in Observed :
        (/\ calls[c].fn = "login" /\ calls[c].pc = "done"
         /\ calls[c].first = 401 /\ calls[c].alone) =>
            /\ Len(calls[c].requests) = 1
            /\ Len(calls[c].refreshRequests) = 0
            /\ calls[c].endStore[KAccess] = calls[c].requests[1].stored
            /\ calls[c].refreshCalls = 1 =>
                  calls[c].endStore[KRefresh] = calls[c].refresh

\* C29 (as claimed): refreshToken never returns, and never stores, an
\* access value that the refresh response did not contain.
C29_OnlyPresentAccessStored ==
    /\ store[KAccess] # ToStorage(Undefined)
    /\ \A c \in Observed : calls[c].refreshed # Undefined

(* ---------------- the axios client (frontend/src/lib/api.ts) ----------- *)
\* The interceptor client keeps its tokens under its own localStorage keys.
\* Under SpecAxios `store` is localStorage restricted to these keys and
\* `calls` holds one AxiosIdle-shaped record per request made through `api`.
KAxiosAccess == "accessToken"
KAxiosRefresh == "refreshToken"
AxiosKeys == {KAxiosAccess, KAxiosRefresh}

\* response.data of a refresh response, as line 44 sees it: an access token,
\* Undefined (data without an access field) or Null (data is null, which
\* cannot be destructured)
AxiosRefreshData == AccessValues \cup {Undefined, Null}

\* what the promise returned to the caller settles with: the response or
\* the error of one of the three requests (status NetErr: an error without
\* a response), or a TypeError thrown inside the interceptor
AxiosPending == [kind |-> "pending", of |-> "", status |-> -1]
AxiosSettled(kind, of, status) == [kind |-> kind, of |-> of, status |-> status]

AxiosIdle ==
    [pc |-> "idle",            \* idle, request, refresh, reissue, done
     _retry |-> FALSE,         \* originalRequest._retry
     headers |-> {},           \* originalRequest.headers
     requests |-> <<>>,        \* requests sent for the caller: [via, headers]
     status |-> -1,            \* how the request sent through api settled
     refreshRequests |-> <<>>, \* refresh requests sent: [body, _retry]
     refreshStatus |-> -1,     \* how the refresh request settled
     access |-> Null,          \* `access` of line 44
     reissueStatus |-> -1,     \* how the reissued request settled
     href |-> "",              \* window.location.href as assigned by the call
     result |-> AxiosPending]

\* as for the fetch client, the record of what a call has done is kept for
\* the calls in Observed; of the others only the position is kept, which is
\* all their own code still depends on (_retry is true exactly after the
\* refresh path was entered)
AxiosForget(r) ==
    [AxiosIdle EXCEPT !.pc = r.pc,
                      !._retry = r.pc \in {"refresh", "reissue"}]

AxiosStep(c, r) ==
    calls' = [calls EXCEPT ![c] = IF c \in Observed THEN r ELSE AxiosForget(r)]

\* lines 12-26: a request is made through `api`; the request interceptor
\* adds the bearer header if an access token is stored, and the request is
\* sent
AxiosRequest(c) ==
    /\ calls[c].pc = "idle"
    /\ (c - 1 \in Calls \ Observed) => calls[c - 1].pc # "idle"
    /\ LET token == store[KAxiosAccess]
           headers == {ContentTypeJson} \cup
                      (IF Truthy(token) THEN {Authorization(token)} ELSE {})
       IN  AxiosStep(c, [calls[c] EXCEPT
                           !.pc = "request",
                           !.headers = headers,
                           !.requests = <<[via |-> "api", headers |-> headers]>>])
    /\ UNCHANGED store

\* line 35 evaluated for an error that has a response
AxiosShouldRefresh(status, retry) == status = 401 /\ ~retry

\* lines 30-59: the request sent through `api` settles.  A 2xx response is
\* passed on; an error goes to the error interceptor, which reads
\* error.response.status (a TypeError when the error has no response),
\* and on a 401 of a request not yet marked marks it and sends the refresh
\* request with whatever localStorage holds as refresh token
AxiosResponse(c, status) ==
    /\ calls[c].pc = "request"
    /\ LET r == [calls[c] EXCEPT !.status = status]
       IN  AxiosStep(c,
             IF ResOk(status)
             THEN [r EXCEPT !.pc = "done",
                            !.result = AxiosSettled("resolved", "request", status)]
             ELSE IF status = NetErr
             THEN [r EXCEPT !.pc = "done",
                            !.result = AxiosSettled("TypeError", "interceptor",
                                                    status)]
             ELSE IF AxiosShouldRefresh(status, r._retry)
             THEN [r EXCEPT !.pc = "refresh",
                            !._retry = TRUE,
                            !.refreshRequests =
                                Append(@, [body |-> store[KAxiosRefresh],
                                           _retry |-> TRUE])]
             ELSE [r EXCEPT !.pc = "done",
                            !.result = AxiosSettled("rejected", "request", status)])
    /\ UNCHANGED store

\* variant: a failed refresh removes the access token only and stays on the
\* page
AxiosRefreshSettledKeepsSession(c, status, data) ==
    /\ calls[c].pc = "refresh"
    /\ LET r == [calls[c] EXCEPT !.refreshStatus = status]
       IN  IF ResOk(status) /\ data # Null
           THEN LET headers ==
                      {h \in r.headers : h[1] # "Authorization"}
                      \cup {Authorization(ToStorage(data))}
                IN  /\ store' = setItem(store, KAxiosAccess, data)
                    /\ AxiosStep(c, [r EXCEPT
                          !.pc = "reissue",
                          !.access = data,
                          !.headers = headers,
                          !.requests = Append(@, [via |-> "axios",
                                                  headers |-> headers])])
           ELSE /\ store' = removeItem(store, KAxiosAccess)
                /\ AxiosStep(c, [r EXCEPT
                      !.pc = "done",
                      !.result = IF ResOk(status)
                                 THEN AxiosSettled("TypeError", "interceptor",
                                                   status)
                                 ELSE AxiosSettled("rejected", "refresh", status)])

\* lines 40-55: `await axios.post(refresh)` settles.  A 2xx response has its
\* data destructured, the access value stored and put into the bearer header
\* of the original request (`${access}` is String(access), which is also
\* what setItem stores), and the request is sent again with the global
\* axios; its promise is returned without await.  A rejected refresh request, or
\* data that cannot be destructured, lands in the catch: both tokens are
\* removed, the page is sent to /login and the error is passed on
AxiosRefreshSettled(c, status, data) ==
    /\ calls[c].pc = "refresh"
    /\ LET r == [calls[c] EXCEPT !.refreshStatus = status]
       IN  IF ResOk(status) /\ data # Null
           THEN LET headers ==
                      {h \in r.headers : h[1] # "Authorization"}
                      \cup {Authorization(ToStorage(data))}
                IN  /\ store' = setItem(store, KAxiosAccess, data)
                    /\ AxiosStep(c, [r EXCEPT
                          !.pc = "reissue",
                          !.access = data,
                          !.headers = headers,
                          !.requests = Append(@, [via |-> "axios",
                                                  headers |-> headers])])
           ELSE /\ store' = removeItem(removeItem(store, KAxiosAccess),
                                       KAxiosRefresh)
                /\ AxiosStep(c, [r EXCEPT
                      !.pc = "done",
                      !.href = "/login",
                      !.result = IF ResOk(status)
                                 THEN AxiosSettled("TypeError", "interceptor",
                                                   status)
                                 ELSE AxiosSettled("rejected", "refresh", status)])

\* variant: the request is sent again through `api` as a new request, so
\* that its 401 enters the refresh path once more
AxiosReissueSettledIntercepted(c, status) ==
    /\ calls[c].pc = "reissue"
    /\ LET r == [calls[c] EXCEPT !.reissueStatus = status]
       IN  AxiosStep(c,
             IF status = 401
             THEN [r EXCEPT !.pc = "refresh",
                            !.refreshRequests =
                                Append(@, [body |-> store[KAxiosRefresh],
                                           _retry |-> TRUE])]
             ELSE [r EXCEPT !.pc = "done",
                            !.result = AxiosSettled(IF ResOk(status)
                                                    THEN "resolved"
                                                    ELSE "rejected",
                                                    "reissue", status)])
    /\ UNCHANGED store

\* line 48: the reissued request settles.  It was sent with the global
\* axios, which has no interceptors, and its promise was returned from the
\* try block without await: response or error go to the caller as they are
AxiosReissueSettled(c, status) ==
    /\ calls[c].pc = "reissue"
    /\ AxiosStep(c, [calls[c] EXCEPT
                       !.pc = "done",
                       !.reissueStatus = status,
                       !.result = AxiosSettled(IF ResOk(status) THEN "resolved"
                                               ELSE "rejected",
                                               "reissue", status)])
    /\ UNCHANGED store

\* the axios client's keys are not set, or hold a pair stored earlier
InitAxios ==
    /\ store \in {[k \in AxiosKeys |-> Null],
                  [k \in AxiosKeys |-> IF k = KAxiosAccess THEN "A1" ELSE "R0"]}
    /\ calls = [c \in Calls |-> AxiosIdle]

NextAxios ==
    \E c \in Calls :
        \/ AxiosRequest(c)
        \/ \E status \in Statuses \cup {NetErr} : AxiosResponse(c, status)
        \/ \E status \in Statuses \cup {NetErr}, data \in AxiosRefreshData :
              AxiosRefreshSettled(c, status, data)
        \/ \E status \in Statuses \cup {NetErr} : AxiosReissueSettled(c, status)

SpecAxios == InitAxios /\ [][NextAxios]_vars

\* C25: the axios client refreshes at most once per original request.  The
\* refresh request is sent only in answer to a 401 of a request not yet
\* marked _retry, and the request is marked by the time the refresh request
\* goes out; the answer to the reissued request, 401 or any other, ends the
\* call without a further refresh request or reissue.
C25_AxiosSingleRefresh ==
    [][\A c \in Observed :
          /\ Len(calls'[c].refreshRequests) <= 1
          /\ Len(calls'[c].requests) <= 2
          /\ Len(calls'[c].refreshRequests) > Len(calls[c].refreshRequests) =>
                /\ calls[c].pc = "request" /\ calls'[c].pc = "refresh"
                /\ calls'[c].status = 401
                /\ ~calls[c]._retry /\ calls'[c]._retry
                /\ calls'[c].refreshRequests[1]._retry
          /\ calls'[c].pc \in {"refresh", "reissue"} => calls'[c]._retry
          /\ (calls[c].pc = "reissue" /\ calls'[c].pc # "reissue") =>
                /\ calls'[c].pc = "done"
                /\ calls'[c].result.of = "reissue"
                /\ calls'[c].result.status = calls'[c].reissueStatus
                /\ calls'[c].refreshRequests = calls[c].refreshRequests
                /\ calls'[c].requests = calls[c].requests
                /\ store' = store]_vars

\* the reissued request was answered 401 as well and the call ended with
\* that error after one refresh
C25_Witness ==
    \E c \in Observed :
        /\ calls[c].pc = "done"
        /\ calls[c].status = 401 /\ calls[c].reissueStatus = 401
        /\ Len(calls[c].refreshRequests) = 1 /\ Len(calls[c].requests) = 2
        /\ calls[c].result = AxiosSettled("rejected", "reissue", 401)

\* C26: when the refresh request of the axios client fails, both of the
\* client's tokens are removed and the page is sent to /login; when it
\* succeeds, the access value of the response is stored and the original
\* request is sent again with that value as its only bearer header.
C26_AxiosRefreshOutcome ==
    [][\A c \in Observed :
          (calls[c].pc = "refresh" /\ calls'[c].pc # "refresh") =>
             LET failed ==
                    /\ calls'[c].pc = "done"
                    /\ store'[KAxiosAccess] = Null
                    /\ store'[KAxiosRefresh] = Null
                    /\ calls'[c].href = "/login"
                    /\ calls'[c].requests = calls[c].requests
                 succeeded ==
                    /\ calls'[c].pc = "reissue"
                    /\ calls'[c].access # Null
                    /\ store'[KAxiosAccess] = ToStorage(calls'[c].access)
                    /\ store'[KAxiosRefresh] = store[KAxiosRefresh]
                    /\ Len(calls'[c].requests) = 2
                    /\ {h \in calls'[c].requests[2].headers :
                            h[1] = "Authorization"} =
                           {Authorization(ToStorage(calls'[c].access))}
                    /\ calls'[c].href = ""
             IN  IF ~ResOk(calls'[c].refreshStatus)
                 THEN /\ failed
                      /\ calls'[c].result =
                             AxiosSettled("rejected", "refresh",
                                          calls'[c].refreshStatus)
                 \* a 2xx response whose data is null fails at line 44
                 ELSE \/ succeeded
                      \/ failed /\ calls'[c].result.kind = "TypeError"]_vars

\* the refresh request, sent with R0, was answered 401: both tokens are
\* gone and the page is at /login
C26_Witness ==
    \E c \in Observed :
        /\ calls[c].pc = "done"
        /\ calls[c].refreshRequests = <<[body |-> "R0", _retry |-> TRUE]>>
        /\ calls[c].refreshStatus = 401
        /\ Authorization("A1") \in calls[c].requests[1].headers
        /\ store[KAxiosAccess] = Null /\ store[KAxiosRefresh] = Null
        /\ calls[c].href = "/login"

\* C30 (as claimed): a request of the axios client that fails without a
\* response is rejected with that error; no refresh request is sent.
C30_AxiosTransportErrorPassedOn ==
    \A c \in Observed :
        (calls[c].pc = "done" /\ calls[c].status = NetErr) =>
            /\ calls[c].result = AxiosSettled("rejected", "request", NetErr)
            /\ Len(calls[c].refreshRequests) = 0
            /\ Len(calls[c].requests) = 1

====
